---- MODULE Spec2Model ----
(***************************************************************************)
(* Model of the Pub/Sub worker of src/functions/worker.ts: one worker      *)
(* instance that receives queue messages, decodes them, creates the        *)
(* per-invocation sandbox directory, runs the cursor-agent binary under a  *)
(* hard deadline and posts its output to the sink named by reply.type.     *)
(*                                                                         *)
(* Strings are sequences of atoms; an atom stands for a run of characters  *)
(* that contains neither "/" nor "." unless it is exactly that character.  *)
(* Time is counted in seconds since the timer was armed.                   *)
(***************************************************************************)
EXTENDS Integers, Sequences, FiniteSets, TLC

(* ---------------- bounds of the model ---------------- *)

\* number of messages delivered to the instance
MaxDeliveries == 2
\* single seconds the clock is followed before it jumps to the deadline
MaxClock == 1
\* data events ("data" on stdout or stderr) per run
MaxChunks == 1
\* characters of the long chunk a process may write
LongChunk == 50000

(* ---------------- program constants ---------------- *)

\* default of timeouts.hard_seconds
DefaultHardSeconds == 900
\* largest delay setTimeout accepts, in milliseconds (2^31 - 1)
TimeoutMax == 2147483647
\* stdout.slice(0, 39000)
SlackCap == 39000
\* stderr.slice(0, 4000)
StderrCap == 4000
\* deadLetterPolicy.maxDeliveryAttempts of the subscription agents-sub
MaxDeliveryAttempts == 10

\* a trigger that delivers a failed event again
RetryPolicy_Retry == "RETRY_POLICY_RETRY"

\* eventTrigger.retryPolicy of the worker function
RetryPolicy == "RETRY_POLICY_DO_NOT_RETRY"

(* ---------------- strings and optional fields ---------------- *)

Some(v) == [present |-> TRUE, v |-> v]
NoStr == [present |-> FALSE, v |-> << >>]
NoInt == [present |-> FALSE, v |-> 0]

\* s.startsWith(p)
StartsWith(s, p) == Len(s) >= Len(p) /\ SubSeq(s, 1, Len(p)) = p

(* ---------------- captured output ---------------- *)

\* The text of stdout and stderr is kept as its runs of equal characters:
\* [ch |-> c, n |-> k] is c written k times, k >= 1, and neighbouring runs
\* differ in their character.

Run(c, k) == [ch |-> c, n |-> k]

\* t.length
RECURSIVE TextLen(_)
TextLen(t) == IF t = << >> THEN 0 ELSE t[1].n + TextLen(Tail(t))

\* a + b
TextCat(a, b) ==
    IF a = << >> THEN b
    ELSE IF b = << >> THEN a
    ELSE IF a[Len(a)].ch = b[1].ch
    THEN SubSeq(a, 1, Len(a) - 1) \o << Run(b[1].ch, a[Len(a)].n + b[1].n) >> \o Tail(b)
    ELSE a \o b

\* a slice that returns the whole text
TextSlice_NoCap(t, k) == t

\* t.slice(0, k)
RECURSIVE TextSlice(_, _)
TextSlice(t, k) ==
    IF t = << >> \/ k <= 0 THEN << >>
    ELSE IF t[1].n >= k THEN << Run(t[1].ch, k) >>
    ELSE << t[1] >> \o TextSlice(Tail(t), k - t[1].n)

\* Buffer.prototype.toString(): the UTF-8 text of the bytes of one chunk.
\* The bytes C3 A9 side by side are the character U+00E9; a C3 with no A9
\* after it in the chunk, and an A9 with no C3 before it, each become
\* U+FFFD; every other byte here is the ASCII character of its name.
RECURSIVE toString(_)
toString(b) ==
    IF b = << >> THEN << >>
    ELSE IF b[1].ch = "C3"
    THEN IF b[1].n > 1
         THEN TextCat(<< Run("U+FFFD", b[1].n - 1) >>, toString(<< Run("C3", 1) >> \o Tail(b)))
         ELSE IF Len(b) >= 2 /\ b[2].ch = "A9"
         THEN TextCat(<< Run("U+00E9", 1) >>,
                      toString((IF b[2].n > 1 THEN << Run("A9", b[2].n - 1) >> ELSE << >>)
                               \o SubSeq(b, 3, Len(b))))
         ELSE TextCat(<< Run("U+FFFD", 1) >>, toString(Tail(b)))
    ELSE IF b[1].ch = "A9"
    THEN TextCat(<< Run("U+FFFD", b[1].n) >>, toString(Tail(b)))
    ELSE TextCat(<< b[1] >>, toString(Tail(b)))

\* the data listener run on the chunks of a write, one after the other:
\* acc += d.toString()
RECURSIVE Listen(_, _)
Listen(acc, ds) ==
    IF ds = << >> THEN acc ELSE Listen(TextCat(acc, toString(Head(ds))), Tail(ds))

(* ---------------- the file system ---------------- *)

\* the segments of a path string, split on "/"
RECURSIVE SplitFrom(_, _, _, _)
SplitFrom(s, i, cur, acc) ==
    IF i > Len(s) THEN Append(acc, cur)
    ELSE IF s[i] = "/" THEN SplitFrom(s, i + 1, << >>, Append(acc, cur))
    ELSE SplitFrom(s, i + 1, Append(cur, s[i]), acc)

Split(s) == SplitFrom(s, 1, << >>, << >>)

\* the directory an absolute path names: empty and "." segments are
\* skipped, ".." goes to the parent (the parent of the root is the root)
RECURSIVE ResolveFrom(_, _, _)
ResolveFrom(segs, i, acc) ==
    IF i > Len(segs) THEN acc
    ELSE IF segs[i] = << >> \/ segs[i] = <<".">> THEN ResolveFrom(segs, i + 1, acc)
    ELSE IF segs[i] = <<".", ".">>
         THEN ResolveFrom(segs, i + 1,
                          IF acc = << >> THEN acc ELSE SubSeq(acc, 1, Len(acc) - 1))
    ELSE ResolveFrom(segs, i + 1, Append(acc, segs[i]))

Resolve(path) == ResolveFrom(Split(path), 1, << >>)

\* a mkdirSync without the option recursive: a directory that exists is an
\* error
mkdirThrows_IfExists(dirs, path) == Resolve(path) \in dirs

\* whether mkdirSync(path, { recursive: true }) throws: not for a directory
\* that exists, and not for one whose ancestors are missing
mkdirThrows(dirs, path) == FALSE

\* mkdirSync(path, { recursive: true }): the directory and every missing
\* ancestor exist afterwards; an existing directory is not an error
mkdirSync(dirs, path) ==
    LET d == Resolve(path) IN dirs \cup { SubSeq(d, 1, k) : k \in 0..Len(d) }

\* the shared ephemeral root /tmp
TmpRoot == << <<"tmp">> >>

\* `/tmp/${correlationId}`
SandboxPath(correlationId) == <<"/", "tmp", "/">> \o correlationId

(* ---------------- queue messages ---------------- *)

\* values of correlation_id: absent, "", "a", "a/b", "../x"
CorrIds ==
    { NoStr, Some(<< >>), Some(<<"a">>), Some(<<"a", "/", "b">>),
      Some(<<".", ".", "/", "x">>) }

\* values of agent.name
AgentNames == { NoStr, Some(<<"x">>), Some(<<"x", " ", "-", "y">>) }

\* values of reply.type
ReplyTypes ==
    { NoStr, Some(<<"github", ".", "pr_review">>), Some(<<"github", ".", "issue">>),
      Some(<<"slack", ".", "message">>), Some(<<"jira", ".", "issue">>), Some(<<"none">>) }

\* values of timeouts.hard_seconds
HardSeconds == { NoInt, Some(0), Some(-1), Some(2) }

\* what the base64 data of the Pub/Sub message holds: nothing, the empty
\* string, text that is not JSON, the JSON null, a JSON scalar, or an object
PayloadKinds == { "absent", "empty", "badjson", "null", "scalar", "object" }

\* targets: whether reply.targets is there (an object with the fields of
\* its sink)
Fields(c, n, r, h, t) ==
    [correlation_id |-> c, agentName |-> n, replyType |-> r, hard_seconds |-> h,
     targets |-> t]

NoFields == Fields(NoStr, NoStr, NoStr, NoInt, FALSE)

\* the usual message names its identifier, its agent and its deadline and
\* asks for no reply
UsualCorrId == Some(<<"a">>)
UsualName == Some(<<"x">>)
UsualReply == NoStr
UsualHardSeconds == Some(2)

\* the messages delivered: every payload that is not an object, the objects
\* in which at most one of correlation_id, agent.name, reply.type and
\* timeouts.hard_seconds departs from the usual message (the handler reads
\* the four independently of each other), and the replies that name a sink
\* without reply.targets
Events ==
    { [payload |-> k, json |-> NoFields] : k \in PayloadKinds \ {"object"} }
    \cup
    { [payload |-> "object",
       json |-> Fields(c, UsualName, UsualReply, UsualHardSeconds, TRUE)] :
        c \in CorrIds }
    \cup
    { [payload |-> "object",
       json |-> Fields(UsualCorrId, n, UsualReply, UsualHardSeconds, TRUE)] :
        n \in AgentNames }
    \cup
    { [payload |-> "object",
       json |-> Fields(UsualCorrId, UsualName, r, UsualHardSeconds, TRUE)] :
        r \in ReplyTypes }
    \cup
    { [payload |-> "object",
       json |-> Fields(UsualCorrId, UsualName, UsualReply, h, TRUE)] :
        h \in HardSeconds }
    \cup
    { [payload |-> "object",
       json |-> Fields(UsualCorrId, UsualName, r, UsualHardSeconds, FALSE)] :
        r \in { Some(<<"github", ".", "pr_review">>), Some(<<"slack", ".", "message">>) } }

NoEvent == [payload |-> "absent", json |-> NoFields]

\* the trigger holds no event for another delivery
NoRetry == [present |-> FALSE, e |-> NoEvent, n |-> 0]

\* no pass has settled since the last delivery
NoSettled == [failKind |-> "none", disposition |-> "none", n |-> 0]

\* decode without the check of JSON.parse
decode_AcceptsAnyText(event) ==
    IF event.payload \in {"absent", "empty"}
    THEN [ok |-> FALSE, isNull |-> FALSE, isScalar |-> FALSE, msg |-> NoFields]
    ELSE [ok |-> TRUE, isNull |-> (event.payload = "null"),
          isScalar |-> (event.payload = "scalar"), msg |-> event.json]

\* decode(event): throws when the data field is missing or empty and when
\* JSON.parse rejects the text; otherwise returns the parsed value.  The
\* properties of a JSON scalar are all undefined.
decode(event) ==
    IF event.payload \in {"absent", "empty"}
    THEN [ok |-> FALSE, isNull |-> FALSE, isScalar |-> FALSE, msg |-> NoFields]
    ELSE IF event.payload = "badjson"
    THEN [ok |-> FALSE, isNull |-> FALSE, isScalar |-> FALSE, msg |-> NoFields]
    ELSE [ok |-> TRUE, isNull |-> (event.payload = "null"),
          isScalar |-> (event.payload = "scalar"), msg |-> event.json]

\* a generator that hands out the same identifier every time
randomUUID_Fixed(n) == <<"uuid", "0">>

\* crypto.randomUUID(): the n-th identifier the generator hands out
randomUUID(n) == <<"uuid", ToString(n)>>

\* msg.correlation_id || crypto.randomUUID()
CorrelationIdOf(msg, n) ==
    IF msg.correlation_id.present /\ msg.correlation_id.v # << >>
    THEN msg.correlation_id.v
    ELSE randomUUID(n)

\* msg.timeouts?.hard_seconds ?? 900
HardSecondsOf(msg) ==
    IF msg.hard_seconds.present THEN msg.hard_seconds.v ELSE DefaultHardSeconds

\* msg.agent?.name ?? "default"
AgentNameOf(msg) ==
    IF msg.agentName.present THEN msg.agentName.v ELSE <<"default">>

\* the JSON text of one property: nothing when the property is undefined
Property(key, field, text) == IF field.present THEN << key >> \o text \o << "," >> ELSE << >>

\* JSON.stringify of the decoded value: the text of a scalar, or of an
\* object with the properties that are there, in their order
JSONstringify(d) ==
    IF d.isScalar THEN << "5" >>
    ELSE << "{" >>
         \o Property("correlation_id:", d.msg.correlation_id, d.msg.correlation_id.v)
         \o Property("agent.name:", d.msg.agentName, d.msg.agentName.v)
         \o Property("reply.type:", d.msg.replyType, d.msg.replyType.v)
         \o Property("reply.targets:", [present |-> d.msg.targets], << "{}" >>)
         \o Property("timeouts.hard_seconds:", d.msg.hard_seconds,
                     << ToString(d.msg.hard_seconds.v) >>)
         \o << "}" >>

\* ["--name", msg.agent?.name ?? "default", "--input", JSON.stringify(msg)]
ArgsOf(d) == << <<"--name">>, AgentNameOf(d.msg), <<"--input">>, JSONstringify(d) >>

\* the words a shell makes of a command line: split at blanks
RECURSIVE ShellWords(_, _, _)
ShellWords(line, cur, acc) ==
    IF line = << >> THEN (IF cur = << >> THEN acc ELSE Append(acc, cur))
    ELSE IF Head(line) = " "
         THEN ShellWords(Tail(line), << >>, IF cur = << >> THEN acc ELSE Append(acc, cur))
    ELSE ShellWords(Tail(line), Append(cur, Head(line)), acc)

\* the arguments joined into a command line
RECURSIVE JoinArgs(_)
JoinArgs(a) ==
    IF a = << >> THEN << >>
    ELSE IF Len(a) = 1 THEN a[1]
    ELSE a[1] \o << " " >> \o JoinArgs(Tail(a))

\* a spawn that hands the arguments to a shell whatever the option says
SpawnArgv_Shell(a, shell) == ShellWords(JoinArgs(a), << >>, << >>)

\* spawn(CURSOR_BIN, args, { shell }): the arguments the process receives
\* after its name; without a shell each element of args is one argument
SpawnArgv(a, shell) == IF shell THEN ShellWords(JoinArgs(a), << >>, << >>) ELSE a

\* process.env of the instance: HOME and XDG_CACHE_HOME are set, to
\* directories outside /tmp, XDG_CONFIG_HOME is not
ProcessEnv ==
    [HOME |-> Some(<<"/", "root">>),
     XDG_CACHE_HOME |-> Some(<<"/", "root", "/", ".cache">>),
     XDG_CONFIG_HOME |-> NoStr,
     CURSOR_API_KEY |-> Some(<<"key">>)]

\* an overlay that the inherited environment overrides
SpawnEnv_InheritedWins(env, sb) ==
    [k \in DOMAIN env |->
        IF env[k].present THEN env[k]
        ELSE IF k = "HOME" THEN Some(sb)
        ELSE IF k = "XDG_CACHE_HOME" THEN Some(sb \o <<"/", ".cache">>)
        ELSE IF k = "XDG_CONFIG_HOME" THEN Some(sb \o <<"/", ".config">>)
        ELSE env[k]]

\* lines 43-48: { ...env, HOME: sandbox, XDG_CACHE_HOME: `${sandbox}/.cache`,
\* XDG_CONFIG_HOME: `${sandbox}/.config` }
SpawnEnv(env, sb) ==
    [k \in DOMAIN env |->
        IF k = "HOME" THEN Some(sb)
        ELSE IF k = "XDG_CACHE_HOME" THEN Some(sb \o <<"/", ".cache">>)
        ELSE IF k = "XDG_CONFIG_HOME" THEN Some(sb \o <<"/", ".config">>)
        ELSE env[k]]

\* lines 41-52: what spawn() is called with
SpawnCall(a, env, sb) ==
    [argv |-> SpawnArgv(a, FALSE), cwd |-> sb, env |-> SpawnEnv(env, sb), detached |-> TRUE]

\* spawn() has not been called
NoSpawnCall == [argv |-> << >>, cwd |-> << >>, env |-> ProcessEnv, detached |-> FALSE]

\* the delay setTimeout(cb, hardSeconds * 1000) arms, in milliseconds: a
\* delay below 1 or above 2^31 - 1 is replaced by 1
TimerDelayMs(hardSecs) ==
    IF hardSecs * 1000 < 1 \/ hardSecs * 1000 > TimeoutMax THEN 1 ELSE hardSecs * 1000

\* the whole seconds after which the armed timer is due
DeadlineOf(ms) == ms \div 1000

(* ---------------- state ---------------- *)

VARIABLES
    binaryOk,       \* cursor-agent --version ran when the module was loaded
    registered,     \* cloudEvent("worker", ...) was reached: the handler exists
    keyPresent,     \* process.env.CURSOR_API_KEY is set
    fs,             \* the directories that exist
    uuidCtr,        \* identifiers handed out by crypto.randomUUID so far
    issued,         \* the generated correlation identifiers, in order
    deliveries,     \* messages delivered to the instance so far
    leftover,       \* a process of an earlier pass is still alive
    retry,          \* the event the trigger holds for another delivery
    dlq,            \* messages published to the topic agents-dlq
    attempt,        \* which delivery of its message the current pass is
    settled,        \* how the last pass ended and what the trigger did with its event
    pc,             \* where the handler is: idle, running, dispatching, done, failed
    failKind,       \* why the pass failed
    event,          \* the event of the current pass
    task,           \* worker: msg, the value decode returned
    correlationId,  \* worker: correlationId
    hardSeconds,    \* worker: hardSeconds
    args,           \* worker: args
    spawnCall,      \* what spawn() was called with
    steps,          \* the steps the pass has entered, in order
    sandbox,        \* runAgent: the directory `/tmp/${correlationId}` names
    created,        \* the directories the pass has created
    spawned,        \* how spawn() ended: none, ok, errorEvent, throws
    spawns,         \* calls of spawn() made in the pass
    timer,          \* the watchdog timer: unarmed, armed, cleared, fired
    delayMs,        \* the delay the timer was armed with
    now,            \* whole seconds since the timer was armed
    top,            \* the spawned process: none, alive, killed, dead
    desc,           \* a descendant in its process group that holds its pipes
    exitCode,       \* exit code of the spawned process (absent: ended by a signal)
    topExit,        \* how the spawned process ended: none, inTime, late, killed
    closed,         \* process and pipes are closed: open, inTime, late
    closeHandled,   \* the close listener has run
    out,            \* runAgent: out
    err,            \* runAgent: err
    chunks,         \* writes of the process handled so far
    wrote,          \* the bytes the process has written to stdout and stderr
    runState,       \* the promise of runAgent: none, pending, resolved, rejected
    result,         \* the value the promise resolved with
    kills,          \* the signals the watchdog sent
    sinkCalls,      \* the outbound calls of the pass
    fetchPending,   \* a fetch is awaited
    response        \* how the awaited fetch settled

vars ==
    << binaryOk, registered, keyPresent, fs, uuidCtr, issued, deliveries, leftover, retry, dlq, attempt, settled, pc, failKind, event,
       task, correlationId, hardSeconds, args, spawnCall, steps, sandbox, created, spawned, spawns, timer,
       delayMs, now, top, desc, exitCode, topExit, closed, closeHandled, out, err, chunks, wrote, runState,
       result, kills, sinkCalls, fetchPending, response >>

envVars == << binaryOk, registered, keyPresent >>
hostVars == << fs, uuidCtr, issued, deliveries, leftover >>
queueVars == << retry, dlq, attempt, settled >>
traceVars == << steps >>
passVars == << event, task, correlationId, hardSeconds, args, spawnCall, sandbox, created >>
procVars == << top, desc, exitCode, topExit, closed >>
timerVars == << timer, delayMs, now >>
captureVars == << out, err, chunks, wrote >>

NoResult == [code |-> -1, stdout |-> << >>, stderr |-> << >>]

\* the process has written nothing
NoBytes == [stdout |-> << >>, stderr |-> << >>]

\* the first byte of a write, and the bytes after it
FirstByte(w) == << Run(w[1].ch, 1) >>
RestBytes(w) == (IF w[1].n > 1 THEN << Run(w[1].ch, w[1].n - 1) >> ELSE << >>) \o Tail(w)

\* the bytes a process may write at a time: to stdout "ok", or the two
\* bytes of U+00E9 and a long run of a character after them; to stderr a
\* long run of a character
Writes(stream) ==
    IF stream = "stdout"
    THEN { << Run("o", 1), Run("k", 1) >>,
           << Run("C3", 1), Run("A9", 1), Run("x", LongChunk) >> }
    ELSE { << Run("e", LongChunk) >> }

\* the chunks in which the pipe hands a write to its data listener: the
\* write as a whole, or, for a write too long for one read of the pipe, cut
\* in two, here after its first byte
Chunks(w) ==
    { << w >> } \cup
    (IF TextLen(w) >= LongChunk
     THEN { << FirstByte(w), RestBytes(w) >> }
     ELSE { })

\* a handler that goes on without the key
KeyOk_Unchecked(present) == TRUE

\* lines 100-101: the handler throws unless process.env.CURSOR_API_KEY is
\* a non-empty string
KeyOk(present) == present

\* a module that logs the failure of the check and goes on
ColdStart_GoesOn(ok) == TRUE

\* lines 11-22 and 98: the module throws while it is loaded when
\* execFileSync throws, and the call of cloudEvent on line 98 is reached
\* only otherwise
ColdStart(ok) == ok

Init ==
    /\ binaryOk \in BOOLEAN
    /\ registered = ColdStart(binaryOk)
    /\ keyPresent \in BOOLEAN
    /\ fs = { << >>, TmpRoot }
    /\ uuidCtr = 0
    /\ issued = << >>
    /\ deliveries = 0
    /\ leftover = FALSE
    /\ retry = NoRetry
    /\ dlq = 0
    /\ attempt = 0
    /\ settled = NoSettled
    /\ pc = "idle"
    /\ failKind = "none"
    /\ event = NoEvent
    /\ task = NoFields
    /\ correlationId = << >>
    /\ hardSeconds = 0
    /\ args = << >>
    /\ spawnCall = NoSpawnCall
    /\ steps = << >>
    /\ sandbox = << >>
    /\ created = {}
    /\ spawned = "none"
    /\ spawns = 0
    /\ timer = "unarmed"
    /\ delayMs = 0
    /\ now = 0
    /\ top = "none"
    /\ desc = "none"
    /\ exitCode = NoInt
    /\ topExit = "none"
    /\ closed = "open"
    /\ closeHandled = FALSE
    /\ out = << >>
    /\ err = << >>
    /\ chunks = 0
    /\ wrote = NoBytes
    /\ runState = "none"
    /\ result = NoResult
    /\ kills = << >>
    /\ sinkCalls = << >>
    /\ fetchPending = FALSE
    /\ response = "none"

\* the state of a pass before its handler has run
FreshPass ==
    /\ correlationId' = << >>
    /\ hardSeconds' = 0
    /\ args' = << >>
    /\ spawnCall' = NoSpawnCall
    /\ sandbox' = << >>
    /\ created' = {}
    /\ spawned' = "none"
    /\ spawns' = 0
    /\ timer' = "unarmed"
    /\ delayMs' = 0
    /\ now' = 0
    /\ top' = "none"
    /\ desc' = "none"
    /\ exitCode' = NoInt
    /\ topExit' = "none"
    /\ closed' = "open"
    /\ closeHandled' = FALSE
    /\ out' = << >>
    /\ err' = << >>
    /\ chunks' = 0
    /\ wrote' = NoBytes
    /\ runState' = "none"
    /\ result' = NoResult
    /\ kills' = << >>
    /\ sinkCalls' = << >>
    /\ fetchPending' = FALSE
    /\ response' = "none"

(* ---------------- the handler up to its first await ---------------- *)

Running(p) == p \in {"alive", "killed"}

\* the platform hands a message to the handler of the instance, and only
\* when no pass is in flight
CanReceive ==
    /\ registered
    /\ pc = "idle"
    /\ deliveries < MaxDeliveries

\* the event is a new message, or the one the trigger holds for another
\* delivery
Received(e) ==
    /\ event' = e
    /\ deliveries' = deliveries + 1
    /\ attempt' = IF retry.present /\ retry.e = e THEN retry.n + 1 ELSE 1
    /\ retry' = IF retry.present /\ retry.e = e THEN NoRetry ELSE retry
    /\ settled' = NoSettled
    /\ UNCHANGED << leftover, dlq >>

\* decode throws: line 26 or JSON.parse on line 27
ReceiveMalformed ==
    /\ CanReceive
    /\ \E e \in Events :
        /\ ~decode(e).ok
        /\ Received(e)
        /\ task' = NoFields
        /\ FreshPass
        /\ pc' = "failed"
        /\ failKind' = "Malformed"
        /\ steps' = << "decode" >>
        /\ UNCHANGED << envVars, fs, uuidCtr, issued >>

\* line 101: CURSOR_API_KEY is not set
ReceiveNoKey ==
    /\ CanReceive
    /\ \E e \in Events :
        /\ decode(e).ok
        /\ ~KeyOk(keyPresent)
        /\ Received(e)
        /\ task' = decode(e).msg
        /\ FreshPass
        /\ pc' = "failed"
        /\ failKind' = "Config"
        /\ steps' = << "decode" >>
        /\ UNCHANGED << envVars, fs, uuidCtr, issued >>

\* line 103: msg is null, reading msg.correlation_id throws a TypeError
ReceiveNull ==
    /\ CanReceive
    /\ \E e \in Events :
        /\ decode(e).ok
        /\ KeyOk(keyPresent)
        /\ decode(e).isNull
        /\ Received(e)
        /\ task' = decode(e).msg
        /\ FreshPass
        /\ pc' = "failed"
        /\ failKind' = "TypeError"
        /\ steps' = << "decode" >>
        /\ UNCHANGED << envVars, fs, uuidCtr, issued >>

\* a handler that writes the defaulted identifier back into the message
Provision_DefaultsInPlace(e) ==
    LET msg == decode(e).msg
        generated == ~(msg.correlation_id.present /\ msg.correlation_id.v # << >>)
        cid == CorrelationIdOf(msg, uuidCtr + 1)
    IN  /\ task' = [msg EXCEPT !.correlation_id = Some(cid)]
        /\ uuidCtr' = IF generated THEN uuidCtr + 1 ELSE uuidCtr
        /\ issued' = IF generated THEN Append(issued, cid) ELSE issued
        /\ correlationId' = cid
        /\ hardSeconds' = HardSecondsOf(msg)
        /\ args' = ArgsOf(decode(e))
        /\ spawnCall' = SpawnCall(ArgsOf(decode(e)), ProcessEnv, SandboxPath(cid))
        /\ sandbox' = Resolve(SandboxPath(cid))
        /\ fs' = mkdirSync(fs, SandboxPath(cid))
        /\ created' = mkdirSync(fs, SandboxPath(cid)) \ fs

\* lines 103-111 and 36-37: the identifier, the deadline, the arguments
\* and the sandbox
Provision(e) ==
    LET msg == decode(e).msg
        generated == ~(msg.correlation_id.present /\ msg.correlation_id.v # << >>)
        cid == CorrelationIdOf(msg, uuidCtr + 1)
    IN  /\ task' = msg
        /\ uuidCtr' = IF generated THEN uuidCtr + 1 ELSE uuidCtr
        /\ issued' = IF generated THEN Append(issued, cid) ELSE issued
        /\ correlationId' = cid
        /\ hardSeconds' = HardSecondsOf(msg)
        /\ args' = ArgsOf(decode(e))
        /\ spawnCall' = SpawnCall(ArgsOf(decode(e)), ProcessEnv, SandboxPath(cid))
        /\ sandbox' = Resolve(SandboxPath(cid))
        /\ fs' = mkdirSync(fs, SandboxPath(cid))
        /\ created' = mkdirSync(fs, SandboxPath(cid)) \ fs

\* the path of the sandbox of the pass for e
SandboxPathFor(e) == SandboxPath(CorrelationIdOf(decode(e).msg, uuidCtr + 1))

\* mkdirSync throws and spawn() is not reached, or spawn() throws inside the
\* promise executor: the promise is rejected before the listeners and the
\* timer are set up
ReceiveSpawnThrows ==
    /\ CanReceive
    /\ \E e \in Events :
        /\ decode(e).ok
        /\ KeyOk(keyPresent)
        /\ ~decode(e).isNull
        /\ Received(e)
        /\ Provision(e)
        /\ spawned' = IF mkdirThrows(fs, SandboxPathFor(e)) THEN "none" ELSE "throws"
        /\ spawns' = IF mkdirThrows(fs, SandboxPathFor(e)) THEN spawns ELSE spawns + 1
        /\ steps' = IF mkdirThrows(fs, SandboxPathFor(e)) THEN << "decode", "sandbox" >>
                    ELSE << "decode", "sandbox", "spawn" >>
        /\ runState' = "rejected"
        /\ pc' = "failed"
        /\ failKind' = "Infrastructure"
        /\ timer' = "unarmed" /\ delayMs' = 0 /\ now' = 0
        /\ top' = "none" /\ desc' = "none" /\ exitCode' = NoInt /\ topExit' = "none" /\ closed' = "open"
        /\ closeHandled' = FALSE
        /\ out' = << >> /\ err' = << >> /\ chunks' = 0 /\ wrote' = NoBytes
        /\ result' = NoResult /\ kills' = << >> /\ sinkCalls' = << >>
        /\ fetchPending' = FALSE
        /\ response' = "none"
        /\ UNCHANGED envVars

\* spawn() returns a child (started, or failed with an error event still to
\* come), the listeners are attached and the timer is armed; the handler
\* then awaits the promise of runAgent
ReceiveAndSpawn ==
    /\ CanReceive
    /\ \E e \in Events, sp \in {"ok", "errorEvent"} :
        /\ decode(e).ok
        /\ KeyOk(keyPresent)
        /\ ~decode(e).isNull
        /\ ~mkdirThrows(fs, SandboxPathFor(e))
        /\ Received(e)
        /\ Provision(e)
        /\ spawned' = sp
        /\ spawns' = spawns + 1
        /\ steps' = << "decode", "sandbox", "spawn" >>
        /\ top' = IF sp = "ok" THEN "alive" ELSE "none"
        /\ timer' = "armed"
        /\ delayMs' = TimerDelayMs(HardSecondsOf(decode(e).msg))
        /\ now' = 0
        /\ runState' = "pending"
        /\ pc' = "running"
        /\ failKind' = "none"
        /\ desc' = "none" /\ exitCode' = NoInt /\ topExit' = "none" /\ closed' = "open"
        /\ closeHandled' = FALSE
        /\ out' = << >> /\ err' = << >> /\ chunks' = 0 /\ wrote' = NoBytes
        /\ result' = NoResult /\ kills' = << >> /\ sinkCalls' = << >>
        /\ fetchPending' = FALSE
        /\ response' = "none"
        /\ UNCHANGED envVars

(* ---------------- the spawned process group ---------------- *)

\* the close event is due once the process has exited and nothing holds
\* its output pipes any more
PipesClosed(t, d) == t = "dead" /\ ~Running(d)

\* whether that happened before the timer was due
ClosedNow(t, d) ==
    IF closed = "open" /\ PipesClosed(t, d)
    THEN IF timer = "armed" /\ now < DeadlineOf(delayMs) THEN "inTime" ELSE "late"
    ELSE closed

\* the process starts a descendant, which inherits the group and the pipes
ProcFork ==
    /\ top = "alive"
    /\ desc = "none"
    /\ desc' = "alive"
    /\ UNCHANGED << top, exitCode, topExit, closed >>
    /\ UNCHANGED << envVars, queueVars, traceVars, hostVars, passVars, timerVars, captureVars >>
    /\ UNCHANGED << pc, failKind, spawned, spawns, closeHandled, runState, result, kills,
                    sinkCalls, fetchPending, response >>

\* the process exits by itself, with a code or by a signal of its own
ProcExit ==
    \E c \in {Some(0), Some(1), NoInt} :
        /\ top = "alive"
        /\ top' = "dead"
        /\ exitCode' = c
        /\ topExit' = IF timer = "armed" /\ now < DeadlineOf(delayMs)
                       THEN "inTime" ELSE "late"
        /\ closed' = ClosedNow("dead", desc)
        /\ UNCHANGED desc
        /\ UNCHANGED << envVars, queueVars, traceVars, hostVars, passVars, timerVars, captureVars >>
        /\ UNCHANGED << pc, failKind, spawned, spawns, closeHandled, runState, result,
                        kills, sinkCalls, fetchPending, response >>

\* SIGKILL takes effect on the process
ProcDie ==
    /\ top = "killed"
    /\ top' = "dead"
    /\ exitCode' = NoInt
    /\ topExit' = "killed"
    /\ closed' = ClosedNow("dead", desc)
    /\ UNCHANGED desc
    /\ UNCHANGED << envVars, queueVars, traceVars, hostVars, passVars, timerVars, captureVars >>
    /\ UNCHANGED << pc, failKind, spawned, spawns, closeHandled, runState, result, kills,
                    sinkCalls, fetchPending, response >>

\* the descendant exits, by itself or because SIGKILL takes effect
DescExit ==
    /\ Running(desc)
    /\ desc' = "dead"
    /\ closed' = ClosedNow(top, "dead")
    /\ UNCHANGED << top, exitCode, topExit >>
    /\ UNCHANGED << envVars, queueVars, traceVars, hostVars, passVars, timerVars, captureVars >>
    /\ UNCHANGED << pc, failKind, spawned, spawns, closeHandled, runState, result, kills,
                    sinkCalls, fetchPending, response >>

\* the last process that outlived its pass exits
LeftoverExit ==
    /\ leftover
    /\ leftover' = FALSE
    /\ UNCHANGED << fs, uuidCtr, issued, deliveries >>
    /\ UNCHANGED << envVars, queueVars, traceVars, passVars, procVars, timerVars, captureVars >>
    /\ UNCHANGED << pc, failKind, spawned, spawns, closeHandled, runState, result, kills,
                    sinkCalls, fetchPending, response >>

(* ---------------- the event loop ---------------- *)

Deadline == DeadlineOf(delayMs)

\* a clearTimeout that leaves the timer armed
ClearTimeout_Noop(t) == t

\* lines 71 and 76: clearTimeout(timer)
ClearTimeout(t) == IF t = "armed" THEN "cleared" ELSE t

\* the timer has expired; its callback runs before any I/O callback
TimerDue == timer = "armed" /\ now >= Deadline

\* the error event of a failed spawn is emitted on the next tick, before
\* timers and I/O
ErrorPending == spawned = "errorEvent" /\ runState = "pending"

\* the close event is due and its listener has not run yet
ClosePending == pc = "running" /\ spawned = "ok" /\ closed # "open" /\ ~closeHandled

\* time passes: second by second up to MaxClock, or straight to the deadline.
\* The loop serves one pass and none of its callbacks blocks, so a callback
\* that is due runs before a whole second has gone by.
Tick ==
    /\ timer = "armed"
    /\ ~ErrorPending
    /\ ~ClosePending
    /\ now < Deadline
    /\ \/ now < MaxClock /\ now' = now + 1
       \/ now' = Deadline
    /\ UNCHANGED << timer, delayMs >>
    /\ UNCHANGED << envVars, queueVars, traceVars, hostVars, passVars, procVars, captureVars >>
    /\ UNCHANGED << pc, failKind, spawned, spawns, closeHandled, runState, result, kills,
                    sinkCalls, fetchPending, response >>

\* lines 54-57: the process writes to stdout or stderr and the data events
\* of that write are handled
OnData ==
    /\ pc = "running"
    /\ spawned = "ok"
    /\ closed = "open"
    /\ ~TimerDue
    /\ chunks < MaxChunks
    /\ \E stream \in {"stdout", "stderr"} : \E w \in Writes(stream) : \E ds \in Chunks(w) :
        /\ chunks' = chunks + 1
        /\ wrote' = [wrote EXCEPT ![stream] = TextCat(@, w)]
        /\ out' = IF stream = "stdout" THEN Listen(out, ds) ELSE out
        /\ err' = IF stream = "stderr" THEN Listen(err, ds) ELSE err
        /\ UNCHANGED << envVars, queueVars, traceVars, hostVars, passVars, procVars, timerVars >>
        /\ UNCHANGED << pc, failKind, spawned, spawns, closeHandled, runState, result,
                        kills, sinkCalls, fetchPending, response >>

\* an error listener that calls spawn() again instead of rejecting
OnError_Respawn ==
    /\ ErrorPending
    /\ spawned' = "ok"
    /\ spawns' = spawns + 1
    /\ top' = "alive"
    /\ UNCHANGED << desc, exitCode, topExit, closed >>
    /\ UNCHANGED << envVars, queueVars, traceVars, hostVars, passVars, timerVars, captureVars >>
    /\ UNCHANGED << pc, failKind, closeHandled, runState, result, kills, sinkCalls,
                    fetchPending, response >>

\* lines 75-78, then the handler rethrows
OnError ==
    /\ ErrorPending
    /\ timer' = ClearTimeout(timer)
    /\ runState' = "rejected"
    /\ pc' = "failed"
    /\ failKind' = "Infrastructure"
    /\ UNCHANGED << delayMs, now >>
    /\ UNCHANGED << envVars, queueVars, traceVars, hostVars, passVars, procVars, captureVars >>
    /\ UNCHANGED << spawned, spawns, closeHandled, result, kills, sinkCalls, fetchPending, response >>

\* a close listener that reports every exit as a success
CloseResult_CodeZero == [code |-> 0, stdout |-> out, stderr |-> err]

\* a close listener that takes a missing exit code for 0
CloseResult_NullIsZero == [code |-> IF exitCode.present THEN exitCode.v ELSE 0,
                           stdout |-> out, stderr |-> err]

\* line 72: code ?? 1
CloseResult == [code |-> IF exitCode.present THEN exitCode.v ELSE 1,
                stdout |-> out, stderr |-> err]

\* a handler that posts the comment to GitHub twice
SinkCallFor_Twice(replyType, stdout) ==
    IF replyType.present /\ StartsWith(replyType.v, <<"github", ".">>)
    THEN << [sink |-> "issue_comment", text |-> stdout],
            [sink |-> "issue_comment", text |-> stdout] >>
    ELSE IF replyType.present /\ replyType.v = <<"slack", ".", "message">>
    THEN << [sink |-> "chat_message", text |-> TextSlice(stdout, SlackCap)] >>
    ELSE << >>

\* a handler that answers on Slack whenever the reply is not for GitHub
SinkCallFor_SlackByDefault(replyType, stdout) ==
    IF replyType.present /\ StartsWith(replyType.v, <<"github", ".">>)
    THEN << [sink |-> "issue_comment", text |-> stdout] >>
    ELSE << [sink |-> "chat_message", text |-> TextSlice(stdout, SlackCap)] >>

\* a handler that cuts the comment for GitHub like the text for Slack
SinkCallFor_CapsBoth(replyType, stdout) ==
    IF replyType.present /\ StartsWith(replyType.v, <<"github", ".">>)
    THEN << [sink |-> "issue_comment", text |-> TextSlice(stdout, SlackCap)] >>
    ELSE IF replyType.present /\ replyType.v = <<"slack", ".", "message">>
    THEN << [sink |-> "chat_message", text |-> TextSlice(stdout, SlackCap)] >>
    ELSE << >>

\* a handler that knows one GitHub type only
SinkCallFor_OneGitHubType(replyType, stdout) ==
    IF replyType.present /\ replyType.v = <<"github", ".", "pr_review">>
    THEN << [sink |-> "issue_comment", text |-> stdout] >>
    ELSE IF replyType.present /\ replyType.v = <<"slack", ".", "message">>
    THEN << [sink |-> "chat_message", text |-> TextSlice(stdout, SlackCap)] >>
    ELSE << >>

\* lines 122-131: the outbound call the handler starts for a reply type
SinkCallFor(replyType, stdout) ==
    IF replyType.present /\ StartsWith(replyType.v, <<"github", ".">>)
    THEN << [sink |-> "issue_comment", text |-> stdout] >>
    ELSE IF replyType.present /\ replyType.v = <<"slack", ".", "message">>
    THEN << [sink |-> "chat_message", text |-> TextSlice(stdout, SlackCap)] >>
    ELSE << >>

\* the watchdog without its catch branch
WatchdogSignals_NoFallback(groupOk, t) == << [target |-> "group", ok |-> groupOk] >>

\* lines 60-64: SIGKILL to the process group and, when that throws,
\* proc.kill("SIGKILL") on the spawned process
WatchdogSignals(groupOk, t) ==
    IF groupOk
    THEN << [target |-> "group", ok |-> TRUE] >>
    ELSE << [target |-> "group", ok |-> FALSE],
            [target |-> "top", ok |-> (t = "alive")] >>

Signalled(sent, target) == \E i \in 1..Len(sent) : sent[i].target = target /\ sent[i].ok

\* the handler without the check of the exit code on line 120
AfterRun_IgnoresCode(res, msg) ==
    IF SinkCallFor(msg.replyType, res.stdout) = << >>
    THEN [pc |-> "done", failKind |-> "none", calls |-> << >>]
    ELSE IF ~msg.targets
    THEN [pc |-> "failed", failKind |-> "TypeError", calls |-> << >>]
    ELSE [pc |-> "dispatching", failKind |-> "none",
          calls |-> SinkCallFor(msg.replyType, res.stdout)]

\* lines 120-131, up to the next await: how the handler goes on with the
\* result of runAgent.  Reading a property of reply.targets (lines 85, 89,
\* 126) throws a TypeError before fetch is called when targets is undefined.
AfterRun(res, msg) ==
    IF res.code # 0
    THEN [pc |-> "failed", failKind |-> "AgentError", calls |-> << >>]
    ELSE IF SinkCallFor(msg.replyType, res.stdout) = << >>
    THEN [pc |-> "done", failKind |-> "none", calls |-> << >>]
    ELSE IF ~msg.targets
    THEN [pc |-> "failed", failKind |-> "TypeError", calls |-> << >>]
    ELSE [pc |-> "dispatching", failKind |-> "none",
          calls |-> SinkCallFor(msg.replyType, res.stdout)]

\* a watchdog that kills but leaves the promise to the close listener
TimerFire_NoReject ==
    \E groupOk \in BOOLEAN :
        /\ TimerDue
        /\ ~ErrorPending
        /\ kills' = WatchdogSignals(groupOk, top)
        /\ top' = IF top = "alive" /\ (Signalled(kills', "group") \/ Signalled(kills', "top"))
                  THEN "killed" ELSE top
        /\ desc' = IF desc = "alive" /\ Signalled(kills', "group")
                   THEN "killed" ELSE desc
        /\ timer' = "fired"
        /\ UNCHANGED << exitCode, topExit, closed, delayMs, now >>
        /\ UNCHANGED << envVars, queueVars, traceVars, hostVars, passVars, captureVars >>
        /\ UNCHANGED << pc, failKind, runState >>
        /\ UNCHANGED << spawned, spawns, closeHandled, result, sinkCalls, fetchPending, response >>

\* lines 59-68: the watchdog.  With the rejection the text captured so far
\* is lost: nothing reads out and err once the promise is rejected (the
\* resolve of a later close is ignored), so the model lets go of them here.
TimerFire ==
    \E groupOk \in BOOLEAN :
        /\ TimerDue
        /\ ~ErrorPending
        /\ kills' = WatchdogSignals(groupOk, top)
        /\ top' = IF top = "alive" /\ (Signalled(kills', "group") \/ Signalled(kills', "top"))
                  THEN "killed" ELSE top
        /\ desc' = IF desc = "alive" /\ Signalled(kills', "group")
                   THEN "killed" ELSE desc
        /\ timer' = "fired"
        /\ runState' = "rejected"
        /\ pc' = "failed"
        /\ failKind' = "Timeout"
        /\ UNCHANGED << exitCode, topExit, closed, delayMs, now >>
        /\ out' = << >> /\ err' = << >> /\ wrote' = NoBytes
        /\ UNCHANGED << envVars, queueVars, traceVars, hostVars, passVars, chunks >>
        /\ UNCHANGED << spawned, spawns, closeHandled, result, sinkCalls, fetchPending, response >>

\* a listener of the exit event: it runs once the spawned process has
\* exited, whoever still holds its output pipes
OnClose_OnExit ==
    /\ pc = "running"
    /\ spawned = "ok"
    /\ top = "dead"
    /\ ~closeHandled
    /\ ~TimerDue
    /\ closeHandled' = TRUE
    /\ timer' = ClearTimeout(timer)
    /\ runState' = "resolved"
    /\ result' = CloseResult
    /\ LET next == AfterRun(CloseResult, task)
       IN  /\ pc' = next.pc
           /\ failKind' = next.failKind
           /\ sinkCalls' = next.calls
           /\ fetchPending' = (next.calls # << >>)
           /\ steps' = IF next.calls # << >> THEN Append(steps, "dispatch") ELSE steps
           /\ UNCHANGED response
    /\ UNCHANGED << delayMs, now >>
    /\ UNCHANGED << envVars, queueVars, hostVars, passVars, procVars, captureVars >>
    /\ UNCHANGED << spawned, spawns, kills >>

\* lines 70-73 while the promise is pending, and the handler from line 120
\* up to its next await
OnClose ==
    /\ pc = "running"
    /\ spawned = "ok"
    /\ closed # "open"
    /\ ~closeHandled
    /\ ~TimerDue
    /\ closeHandled' = TRUE
    /\ timer' = ClearTimeout(timer)
    /\ runState' = "resolved"
    /\ result' = CloseResult
    /\ LET next == AfterRun(CloseResult, task)
       IN  /\ pc' = next.pc
           /\ failKind' = next.failKind
           /\ sinkCalls' = next.calls
           /\ fetchPending' = (next.calls # << >>)
           /\ steps' = IF next.calls # << >> THEN Append(steps, "dispatch") ELSE steps
           /\ UNCHANGED response
    /\ UNCHANGED << delayMs, now >>
    /\ UNCHANGED << envVars, queueVars, hostVars, passVars, procVars, captureVars >>
    /\ UNCHANGED << spawned, spawns, kills >>

\* a close listener whose resolve replaces the rejection of the watchdog
OnCloseLate_Resolves ==
    /\ pc = "failed"
    /\ failKind = "Timeout"
    /\ closed # "open"
    /\ ~closeHandled
    /\ closeHandled' = TRUE
    /\ runState' = "resolved"
    /\ result' = CloseResult
    /\ UNCHANGED << envVars, queueVars, traceVars, hostVars, passVars, procVars, timerVars, captureVars >>
    /\ UNCHANGED << pc, failKind, spawned, spawns, kills, sinkCalls, fetchPending, response >>

\* lines 70-73 after the watchdog has rejected the promise: clearTimeout
\* and resolve have no effect any more
OnCloseLate ==
    /\ pc = "failed"
    /\ failKind = "Timeout"
    /\ closed # "open"
    /\ ~closeHandled
    /\ closeHandled' = TRUE
    /\ UNCHANGED << envVars, queueVars, traceVars, hostVars, passVars, procVars, timerVars, captureVars >>
    /\ UNCHANGED << pc, failKind, spawned, spawns, runState, result, kills, sinkCalls,
                    fetchPending, response >>

\* lines 70-73 after the error listener has rejected the promise: the
\* child of a failed spawn emits close after error; clearTimeout and resolve
\* have no effect any more
OnCloseAfterError ==
    /\ spawned = "errorEvent"
    /\ runState = "rejected"
    /\ pc = "failed"
    /\ ~closeHandled
    /\ closeHandled' = TRUE
    /\ timer' = ClearTimeout(timer)
    /\ UNCHANGED << delayMs, now >>
    /\ UNCHANGED << envVars, queueVars, traceVars, hostVars, passVars, procVars, captureVars >>
    /\ UNCHANGED << pc, failKind, spawned, spawns, runState, result, kills, sinkCalls,
                    fetchPending, response >>

\* the awaited fetch settles: a response of any status resolves it, a
\* network error rejects it and the handler rethrows
FetchSettle ==
    \E r \in {"2xx", "non2xx", "networkError"} :
        /\ pc = "dispatching"
        /\ fetchPending
        /\ fetchPending' = FALSE
        /\ response' = r
        /\ pc' = IF r = "networkError" THEN "failed" ELSE "done"
        /\ failKind' = IF r = "networkError" THEN "Dispatch" ELSE "none"
        /\ UNCHANGED << envVars, queueVars, traceVars, hostVars, passVars, procVars, timerVars, captureVars >>
        /\ UNCHANGED << spawned, spawns, closeHandled, runState, result, kills, sinkCalls >>

\* an error of the exit code that carries the whole of stderr
ErrorStderr_Whole(stderr) == stderr

\* line 120: stderr.slice(0, 4000), the part of stderr put in the error of
\* an exit code other than 0
ErrorStderr(stderr) == TextSlice(stderr, StderrCap)

\* the characters of a text, one for each run
Chars(t) == [i \in 1..Len(t) |-> t[i].ch]

\* the message of the error the handler rejects with: of the watchdog
\* (line 66), of the check of the exit code (line 120), of spawn (the error
\* event of line 75 or its throw), of fetch (its rejection), of decode (line
\* 26 or JSON.parse), of the check of the key (line 101) and of a property
\* read on undefined
ErrorMessage(kind, hardSecs, stderr) ==
    IF kind = "Timeout"
    THEN << "cursor-agent exceeded ", ToString(hardSecs), "s hard timeout" >>
    ELSE IF kind = "AgentError"
    THEN << "cursor failed: " >> \o Chars(ErrorStderr(stderr))
    ELSE IF kind = "Infrastructure" THEN << "spawn ", "cursor-agent", " ENOENT" >>
    ELSE IF kind = "Dispatch" THEN << "request to ", "url", " failed" >>
    ELSE IF kind = "Malformed" THEN << "Malformed Pub/Sub message: missing data field" >>
    ELSE IF kind = "Config" THEN << "missing CURSOR_API_KEY" >>
    ELSE IF kind = "TypeError" THEN << "Cannot read properties of undefined" >>
    ELSE << >>

\* what the trigger does with an event whose handler has settled: it is
\* acknowledged after a success; after a failure it is delivered again
\* under the retrying policy and dropped otherwise.  The trigger's own
\* subscription has no dead-letter topic, and the subscription agents-sub,
\* which has one, has no subscriber: nothing publishes to agents-dlq.
Disposition(policy, failed) ==
    IF ~failed THEN "ack"
    ELSE IF policy = "RETRY_POLICY_RETRY" THEN "retry"
    ELSE "drop"

\* the handler's promise has settled: the locals of the pass are gone and
\* the instance is free for the next message
Return ==
    /\ pc \in {"done", "failed"}
    /\ pc' = "idle"
    /\ retry' = IF Disposition(RetryPolicy, pc = "failed") = "retry"
                THEN [present |-> TRUE, e |-> event, n |-> attempt]
                ELSE retry
    /\ settled' = [failKind |-> failKind,
                   disposition |-> Disposition(RetryPolicy, pc = "failed"),
                   n |-> attempt]
    /\ attempt' = 0
    /\ steps' = << >>
    /\ UNCHANGED dlq
    /\ leftover' = (leftover \/ Running(top) \/ Running(desc))
    /\ event' = NoEvent
    /\ task' = NoFields
    /\ failKind' = "none"
    /\ FreshPass
    /\ UNCHANGED << envVars, fs, uuidCtr, issued, deliveries >>

Next ==
    \/ ReceiveMalformed
    \/ ReceiveNoKey
    \/ ReceiveNull
    \/ ReceiveSpawnThrows
    \/ ReceiveAndSpawn
    \/ ProcFork
    \/ ProcExit
    \/ ProcDie
    \/ DescExit
    \/ LeftoverExit
    \/ Tick
    \/ OnData
    \/ OnError
    \/ TimerFire
    \/ OnClose
    \/ OnCloseLate
    \/ OnCloseAfterError
    \/ FetchSettle
    \/ Return

Spec == Init /\ [][Next]_vars

\* a step of the event loop of the instance: time passes, or a callback
\* that is due (timer, error or close) is run
EventLoop == Tick \/ TimerFire \/ OnError \/ OnClose

\* the event loop does not stop while it has a step to take; nothing is
\* assumed of the spawned process: it need not write, exit or close its pipes
FairSpec == Spec /\ WF_vars(EventLoop)

(* ---------------- the claims ---------------- *)

\* the run of the current pass has returned to the handler
RunReturned == runState \in {"resolved", "rejected"}

\* C1: when the spawned process has not closed by the time the deadline has
\* elapsed, the run ends as a Timeout error, never as a result, after
\* SIGKILL was sent to the process group and, if that failed, to the
\* spawned process itself.
C1_DeadlineKillsGroup ==
    (spawned = "ok" /\ RunReturned /\ closed # "inTime") =>
        /\ runState = "rejected"
        /\ failKind = "Timeout"
        /\ result = NoResult
        /\ kills # << >>
        /\ kills[1].target = "group"
        /\ ~kills[1].ok => (Len(kills) = 2 /\ kills[2].target = "top")

\* a timeout in which the group signal failed and the fallback was used
C1_Witness ==
    /\ failKind = "Timeout"
    /\ closed = "open"
    /\ Len(kills) = 2
    /\ kills[2].target = "top"
    /\ kills[2].ok

\* C2: the run of every spawned process eventually returns, with no
\* assumption on the process, its streams or its exit: no run stays
\* pending for ever.
C2_RunReturns == []<>(~(spawned = "ok" /\ runState = "pending"))

\* the run of a process that wrote nothing, never exited and never closed
\* its pipes has returned
C2_Witness ==
    /\ spawned = "ok"
    /\ runState = "rejected"
    /\ failKind = "Timeout"
    /\ chunks = 0
    /\ topExit = "none"
    /\ closed = "open"

\* C3: when the run returns after a deadline expiry, the spawned process
\* and every descendant in its group have exited.
C3_ExitedAtTimeout ==
    (pc = "failed" /\ failKind = "Timeout") => (~Running(top) /\ ~Running(desc))

\* C4 as stated: once the spawned process has exited before the deadline,
\* the run returns a result with its exit code, the timer is cancelled, no
\* signal is sent and the run is no Timeout, whatever holds the pipes.
C4_ExitBeforeDeadline ==
    (topExit = "inTime" /\ RunReturned) =>
        /\ runState = "resolved"
        /\ result.code = (IF exitCode.present THEN exitCode.v ELSE 1)
        /\ timer = "cleared"
        /\ kills = << >>
        /\ failKind # "Timeout"

\* C4 amended: once the spawned process has exited and its output pipes
\* are closed before the deadline, the run returns a result with the exit
\* code (1 when there is none) and the captured output, the timer is
\* cancelled, no signal is sent and the run is no Timeout.
C4_CloseBeforeDeadline ==
    (closed = "inTime" /\ RunReturned) =>
        /\ timer = "cleared"
        /\ runState = "resolved"
        /\ result = [code |-> IF exitCode.present THEN exitCode.v ELSE 1,
                     stdout |-> out, stderr |-> err]
        /\ kills = << >>
        /\ failKind # "Timeout"

\* a run that returned the exit code 1 of a process that closed in time
C4_Witness ==
    /\ closeHandled
    /\ timer = "cleared"
    /\ topExit = "inTime"
    /\ result.code = 1
    /\ exitCode = Some(1)

\* C5: a pass that created a sandbox has removed it when it ends.
C5_SandboxReleased ==
    (pc \in {"done", "failed"} /\ created # {}) => sandbox \notin fs

\* the identifier holds a path separator or a ".." segment
UnsafeId(id) ==
    \/ \E i \in 1..Len(id) : id[i] = "/"
    \/ \E k \in 1..Len(Split(id)) : Split(id)[k] = <<".", ".">>

\* C6: a correlation_id with a path separator or a traversal sequence is
\* rejected before any directory is created or any process is spawned, and
\* every directory created is a direct child of /tmp.
C6_UnsafeIdRejected ==
    /\ (pc # "idle" /\ event.json.correlation_id.present
          /\ UnsafeId(event.json.correlation_id.v)) =>
            (pc = "failed" /\ created = {} /\ spawned = "none")
    /\ \A d \in fs : d \in {<< >>, TmpRoot} \/ (Len(d) = 2 /\ d[1] = <<"tmp">>)

\* the pass has read an envelope whose payload is not there or is no JSON
Undecodable == pc # "idle" /\ event.payload \in {"absent", "empty", "badjson"}

\* the pass has read an object without agent.name
Nameless == pc # "idle" /\ event.payload = "object" /\ ~event.json.agentName.present

NoSideEffect ==
    /\ pc = "failed"
    /\ created = {}
    /\ args = << >>
    /\ spawned = "none"
    /\ sinkCalls = << >>

C8_PositiveDeadline ==
    (timer # "unarmed") =>
        delayMs = 1000 * (IF event.json.hard_seconds.present
                             /\ event.json.hard_seconds.v > 0
                          THEN event.json.hard_seconds.v
                          ELSE DefaultHardSeconds)

NoDuplicates(ids) ==
    \A i, j \in 1..Len(ids) : i # j => ids[i] # ids[j]

\* C9 as stated: without correlation_id the task gets a generated, non-empty
\* identifier that no other pass gets; a supplied correlation_id is kept.
C9_SuppliedIdKept ==
    /\ NoDuplicates(issued)
    /\ spawned # "none" =>
        IF event.json.correlation_id.present
        THEN correlationId = event.json.correlation_id.v
        ELSE /\ issued # << >>
             /\ correlationId = issued[Len(issued)]
             /\ correlationId # << >>

\* C9 amended: without correlation_id, or with an empty one, the task gets a
\* generated, non-empty identifier that no other pass gets; a supplied
\* non-empty correlation_id is kept.
C9_NonEmptyIdKept ==
    /\ NoDuplicates(issued)
    /\ spawned # "none" =>
        IF event.json.correlation_id.present /\ event.json.correlation_id.v # << >>
        THEN correlationId = event.json.correlation_id.v
        ELSE /\ issued # << >>
             /\ correlationId = issued[Len(issued)]
             /\ correlationId # << >>

\* the second pass that runs under a generated identifier
C9_Witness ==
    /\ Len(issued) = 2
    /\ spawned = "ok"
    /\ ~event.json.correlation_id.present
    /\ correlationId = issued[2]

\* C10: a sink is called only after the process has closed with exit code 0
\* before the deadline; a failed pass other than a failed dispatch has made
\* no sink call.
C10_SinkOnlyAfterSuccess ==
    /\ sinkCalls # << >> =>
        /\ runState = "resolved"
        /\ result.code = 0
        /\ closeHandled
        /\ closed = "inTime"
        /\ kills = << >>
    /\ (pc = "failed" /\ failKind # "Dispatch") => sinkCalls = << >>

\* a pass that has called a sink and is done
C10_Witness ==
    /\ pc = "done"
    /\ sinkCalls # << >>
    /\ result.code = 0

(* ---------------- dispatch ---------------- *)

\* the reply of the message in flight
ReplyOf == decode(event).msg

\* the run has returned a result with exit code 0
Succeeded == runState = "resolved" /\ result.code = 0

IsGitHub(r) == r.replyType = Some(<<"github", ".", "pr_review">>)
IsSlack(r) == r.replyType = Some(<<"slack", ".", "message">>)

C12_NoReplyNoCall ==
    (Succeeded /\ ReplyOf.replyType \in { NoStr, Some(<<"none">>) }) =>
        /\ pc = "done"
        /\ sinkCalls = << >>
        /\ ~fetchPending
        /\ response = "none"

C12_Witness ==
    /\ pc = "done"
    /\ Succeeded
    /\ ReplyOf.replyType = Some(<<"none">>)
    /\ sinkCalls = << >>

\* p is a prefix of t, both in normal form (neighbouring runs differ)
IsTextPrefix(p, t) ==
    \/ p = << >>
    \/ /\ Len(p) <= Len(t)
       /\ \A i \in 1..(Len(p) - 1) : p[i] = t[i]
       /\ p[Len(p)].ch = t[Len(p)].ch
       /\ p[Len(p)].n <= t[Len(p)].n

Min(a, b) == IF a <= b THEN a ELSE b

\* the calls made to a sink
CallsTo(sink) == { i \in 1..Len(sinkCalls) : sinkCalls[i].sink = sink }

\* C13: the text sent to Slack is the prefix of stdout of length
\* min(len(stdout), 39000): never longer than 39000 and equal to stdout when
\* stdout is within the limit.
C13_SlackTextIsCappedPrefix ==
    \A i \in CallsTo("chat_message") :
        /\ IsTextPrefix(sinkCalls[i].text, result.stdout)
        /\ TextLen(sinkCalls[i].text) = Min(TextLen(result.stdout), SlackCap)
        /\ TextLen(sinkCalls[i].text) <= SlackCap
        /\ TextLen(result.stdout) <= SlackCap => sinkCalls[i].text = result.stdout

C13_Witness ==
    /\ CallsTo("chat_message") # { }
    /\ TextLen(result.stdout) > SlackCap
    /\ TextLen(sinkCalls[1].text) = SlackCap

\* C14 as stated: the payload of every sink is bounded whatever the length
\* of stdout, so it stays below the length of a long chunk, which is
\* beyond the limit of every sink.  Violated by the comment for GitHub.
C14_EveryPayloadBounded ==
    \A i \in 1..Len(sinkCalls) : TextLen(sinkCalls[i].text) < LongChunk

\* C14 amended: the text for Slack is bounded by 39000 characters; the
\* comment for GitHub is the whole of stdout, of any length; both are
\* determined by stdout.
C14_PayloadDeterminedByStdout ==
    /\ \A i \in CallsTo("chat_message") :
           /\ TextLen(sinkCalls[i].text) <= SlackCap
           /\ IsTextPrefix(sinkCalls[i].text, result.stdout)
           /\ TextLen(sinkCalls[i].text) = Min(TextLen(result.stdout), SlackCap)
    /\ \A i \in CallsTo("issue_comment") : sinkCalls[i].text = result.stdout

C14_Witness ==
    /\ CallsTo("issue_comment") # { }
    /\ TextLen(result.stdout) >= LongChunk
    /\ sinkCalls[1].text = result.stdout

(* ---------------- failures and redelivery ---------------- *)

\* the trigger has made the event of the last pass available for another
\* delivery
Redeliverable == settled.disposition = "retry" /\ retry.present

\* no pass is a second delivery of its message
NeverProcessedAgain == attempt <= 1

\* C15: a dispatch that failed, by a network error or by a response that is
\* not 2xx, ends the pass failed with the kind Dispatch; the event of such a
\* pass is not made available for another delivery, and no message is
\* processed twice.  Violated by a response that is not 2xx.
C15_DispatchFailureIsDispatchOnly ==
    /\ response \in {"networkError", "non2xx"} =>
           (pc = "failed" /\ failKind = "Dispatch")
    /\ settled.failKind = "Dispatch" => ~Redeliverable
    /\ NeverProcessedAgain

\* C16: when the sink has answered with a response that is not 2xx the pass
\* is not Done but failed.
C16_NonOkResponseNotDone ==
    response = "non2xx" => pc = "failed"

\* the failures the spec calls terminal that the handler can end in
TerminalKinds == { "Malformed", "Timeout", "AgentError" }

C18_InfrastructureRedelivered ==
    settled.failKind = "Infrastructure" => Redeliverable

\* C19: an event whose pass failed because the binary could not be spawned
\* has been delivered at most 10 times and is then either delivered again
\* or, once the 10 deliveries are used up, on the dead-letter topic.
C19_BoundedThenDeadLettered ==
    settled.failKind = "Infrastructure" =>
        /\ settled.n <= MaxDeliveryAttempts
        /\ Redeliverable \/ dlq > 0

\* C20: within a pass spawn() is called at most once and each sink is
\* called at most once, also when the spawn or the dispatch has failed.
C20_NoRetryInsidePass ==
    /\ spawns <= 1
    /\ Cardinality(CallsTo("issue_comment")) <= 1
    /\ Cardinality(CallsTo("chat_message")) <= 1
    /\ (pc = "failed" /\ failKind \in {"Infrastructure", "Dispatch"}) => spawns = 1

C20_Witness ==
    /\ pc = "failed"
    /\ failKind = "Dispatch"
    /\ spawns = 1
    /\ Len(sinkCalls) = 1
    /\ response = "networkError"

(* ---------------- the run and its outcome ---------------- *)

\* spawn() could not start the binary
SpawnFailed == spawned \in {"throws", "errorEvent"}

\* C21 as stated: in no state of a run whose spawn failed is the watchdog
\* timer armed, and no kill signal is attempted.  Violated between a spawn
\* that failed with an error event and the listener of that event.
C21_TimerNeverArmed ==
    SpawnFailed => (timer = "unarmed" /\ kills = << >>)

\* C21 amended: in a run whose spawn failed the watchdog never fires and no
\* kill signal is attempted; once the run has returned, as a failed spawn,
\* no timer is pending: it was never armed (spawn threw) or was cancelled by
\* the error listener (error event).
C21_TimerNeverFires ==
    SpawnFailed =>
        /\ timer # "fired"
        /\ kills = << >>
        /\ top = "none"
        /\ RunReturned =>
              /\ runState = "rejected"
              /\ failKind = "Infrastructure"
              /\ timer = (IF spawned = "throws" THEN "unarmed" ELSE "cleared")

C21_Witness ==
    /\ spawned = "errorEvent"
    /\ RunReturned
    /\ failKind = "Infrastructure"
    /\ timer = "cleared"

\* the process has closed before the deadline with an exit code other than 0
ClosedNonZero == closed = "inTime" /\ exitCode.present /\ exitCode.v # 0

\* C22: when the process has closed before the deadline with an exit code
\* other than 0, the run returns a result, not an error, that carries that
\* exit code and the captured stdout and stderr; the handler then ends the
\* pass failed as AgentError, without a sink call.
C22_NonZeroExitIsResult ==
    (ClosedNonZero /\ RunReturned) =>
        /\ runState = "resolved"
        /\ result = [code |-> exitCode.v, stdout |-> out, stderr |-> err]
        /\ pc = "failed"
        /\ failKind = "AgentError"
        /\ sinkCalls = << >>

C22_Witness ==
    /\ ClosedNonZero
    /\ RunReturned
    /\ result.code = 1
    /\ result.stderr # << >>
    /\ failKind = "AgentError"

(* ---------------- the sandbox ---------------- *)

\* the pass has provisioned a sandbox and called spawn()
Provisioned == spawned # "none"

\* C23: the sandbox root of a pass for a message that was not delivered
\* before is a directory the pass has created itself: no pass for another
\* message has created or used it.
C23_SandboxNeverShared ==
    (Provisioned /\ attempt = 1) => sandbox \in created

\* the directory d is the directory root or lies under it
AtOrUnder(d, root) == Len(d) >= Len(root) /\ SubSeq(d, 1, Len(root)) = root

\* the step is a call of spawn()
SpawnStep == spawns' = spawns + 1

\* the working directory of the spawn call is the sandbox root, and HOME,
\* XDG_CACHE_HOME and XDG_CONFIG_HOME are directories at or under it and
\* not what the inherited environment holds
EnvInsideSandbox ==
    /\ Resolve(spawnCall.cwd) = sandbox
    /\ \A k \in {"HOME", "XDG_CACHE_HOME", "XDG_CONFIG_HOME"} :
          /\ spawnCall.env[k].present
          /\ AtOrUnder(Resolve(spawnCall.env[k].v), sandbox)
          /\ spawnCall.env[k] # ProcessEnv[k]

\* C24: the process is spawned with its working directory at the sandbox
\* root and with HOME, XDG_CACHE_HOME and XDG_CONFIG_HOME set to directories
\* at or under that root, whatever the inherited environment holds for them.
C24_EnvInsideSandbox == [][SpawnStep => EnvInsideSandbox']_vars

C24_Witness ==
    /\ spawned = "ok"
    /\ sandbox = << <<"tmp">>, <<"a">>, <<"b">> >>
    /\ Resolve(spawnCall.env["XDG_CACHE_HOME"].v) = << <<"tmp">>, <<"a">>, <<"b">>, <<".cache">> >>
    /\ ProcessEnv["XDG_CACHE_HOME"].present

(* ---------------- the arguments ---------------- *)

\* where the text holds the key, 0 when it does not
KeyAt(text, key) ==
    IF \E i \in 1..Len(text) : text[i] = key
    THEN CHOOSE i \in 1..Len(text) : text[i] = key
    ELSE 0

\* the end of the property that starts at i
EndFrom(text, i) ==
    CHOOSE j \in i..Len(text) : text[j] = "," /\ \A k \in i..(j - 1) : text[k] # ","

\* the text of the property of that key in a JSON text
ValueIn(text, key) ==
    IF KeyAt(text, key) = 0 THEN NoStr
    ELSE Some(SubSeq(text, KeyAt(text, key) + 1, EndFrom(text, KeyAt(text, key)) - 1))

\* the numbers a message may carry for its deadline
DeadlineValues == { h.v : h \in HardSeconds }

\* the number that a JSON text of a number stands for
NumberIn(field) ==
    IF ~field.present THEN NoInt
    ELSE Some(CHOOSE n \in DeadlineValues : << ToString(n) >> = field.v)

\* the task a process reads from the JSON text of an object
JSONparse(text) ==
    Fields(ValueIn(text, "correlation_id:"), ValueIn(text, "agent.name:"),
           ValueIn(text, "reply.type:"), NumberIn(ValueIn(text, "timeouts.hard_seconds:")),
           ValueIn(text, "reply.targets:").present)

\* the spawn call has the four arguments of the task of the pass
FixedArgumentVector ==
    /\ Len(spawnCall.argv) = 4
    /\ spawnCall.argv[1] = <<"--name">>
    /\ spawnCall.argv[2] = (IF event.json.agentName.present THEN event.json.agentName.v
                            ELSE <<"default">>)
    /\ spawnCall.argv[3] = <<"--input">>
    /\ decode(event).isScalar => spawnCall.argv[4] = << "5" >>
    /\ ~decode(event).isScalar => JSONparse(spawnCall.argv[4]) = decode(event).msg

\* C30: the process is given exactly four arguments: --name, the name of
\* the agent (default when the task names none), --input, and one argument
\* that is the JSON text of the whole decoded task, from which the task can
\* be read back; no content of the task adds, removes or splits an argument.
C30_FixedArgumentVector == [][SpawnStep => FixedArgumentVector']_vars

C30_Witness ==
    /\ spawned = "ok"
    /\ event.json.agentName = Some(<<"x", " ", "-", "y">>)
    /\ spawnCall.argv[2] = <<"x", " ", "-", "y">>
    /\ Len(spawnCall.argv) = 4
    /\ JSONparse(spawnCall.argv[4]).agentName = Some(<<"x", " ", "-", "y">>)

(* ---------------- the sandbox, again ---------------- *)

\* the pass has come to the acquisition of its sandbox
Acquiring == pc # "idle" /\ correlationId # << >>

\* C26: the acquisition of a sandbox whose directory exists already
\* succeeds: the pass goes on to spawn in that same directory, which is
\* the one its identifier names, and nothing is created.
C26_AcquisitionIdempotent ==
    (Acquiring /\ sandbox \notin created) =>
        /\ Provisioned
        /\ sandbox \in fs
        /\ created = {}
        /\ correlationId \in { <<"a">>, <<"a", "/", "b">> } =>
              sandbox = << <<"tmp">> >> \o Split(correlationId)

C26_Witness ==
    /\ deliveries = 2
    /\ spawned = "ok"
    /\ correlationId = <<"a">>
    /\ sandbox = << <<"tmp">>, <<"a">> >>
    /\ sandbox \notin created

(* ---------------- the order of a pass ---------------- *)

\* the steps of a pass in the order of the handler
PassOrder == << "decode", "sandbox", "spawn", "dispatch" >>

\* C25: a delivered message has exactly one pass, and the steps the pass has
\* entered are the first steps of decode, sandbox, spawn, dispatch, each
\* once; the sandbox exists when the process is spawned and the process has
\* closed when a sink is called.
C25_LinearPass ==
    /\ Len(steps) <= Len(PassOrder)
    /\ steps = SubSeq(PassOrder, 1, Len(steps))
    /\ pc # "idle" => (attempt = 1 /\ steps # << >>)
    /\ pc = "idle" => steps = << >>
    /\ Provisioned <=> (Len(steps) >= 3)
    /\ Provisioned => sandbox \in fs
    /\ sinkCalls # << >> <=> (Len(steps) = 4)
    /\ sinkCalls # << >> => (closed # "open" /\ closeHandled /\ top = "dead" /\ ~Running(desc))

C25_Witness ==
    /\ steps = PassOrder
    /\ pc = "done"
    /\ deliveries = 2

(* ---------------- what a failure tells ---------------- *)

\* the error the failed pass has rejected with
Surfaced == ErrorMessage(failKind, hardSeconds, result.stderr)

\* the text holds the identifier
Mentions(text, id) ==
    \E i \in 1..Len(text) :
        i + Len(id) - 1 <= Len(text) /\ SubSeq(text, i, i + Len(id) - 1) = id

\* C27: a pass that failed after its correlation identifier was fixed, by
\* a failed spawn, a timeout, an exit code other than 0 or a failed
\* dispatch, surfaces its failure with that identifier.
C27_FailureCarriesIdentifier ==
    (pc = "failed" /\ failKind \in {"Infrastructure", "Timeout", "AgentError", "Dispatch"}) =>
        Mentions(Surfaced, correlationId)

(* ---------------- one outcome for a run ---------------- *)

\* the outcome the run has returned: a result, or the error of the
\* watchdog or of spawn
Outcome == << runState, result, IF runState = "rejected" THEN failKind ELSE "none" >>

\* C28: once the run of a pass has returned, no later event of the pass
\* (timer, close or error) changes its outcome: a timeout stays a timeout,
\* a result stays that result, a failed spawn stays a failed spawn.
C28_OneOutcome ==
    [][(RunReturned /\ pc' # "idle") =>
          /\ Outcome' = Outcome
          /\ timer' = "fired" => timer = "fired"
          /\ kills' = kills]_vars

C28_Witness ==
    /\ runState = "rejected"
    /\ failKind = "Timeout"
    /\ closeHandled
    /\ closed = "late"
    /\ result = NoResult

\* the run resolved on a close that came before the deadline
ClosedInTime == closed = "inTime" /\ runState = "resolved"

\* C29: when the process closes before the deadline, the stdout and the
\* stderr of the result are each exactly the text of everything the process
\* wrote to that stream, in the order written, the streams kept apart.
C29_StreamsAreWhatWasWritten ==
    ClosedInTime =>
        /\ result.stdout = toString(wrote.stdout)
        /\ result.stderr = toString(wrote.stderr)

(* ---------------- the stderr of an agent error ---------------- *)

\* the pass has failed on an exit code other than 0
AgentFailed == pc = "failed" /\ failKind = "AgentError"

\* C31: the stderr text in the error of a non-zero exit is the prefix of the
\* captured stderr of length min(len(stderr), 4000): never more than 4000
\* characters.
C31_ErrorStderrIsCappedPrefix ==
    AgentFailed =>
        /\ TextLen(ErrorStderr(result.stderr)) <= StderrCap
        /\ TextLen(ErrorStderr(result.stderr)) = Min(TextLen(result.stderr), StderrCap)
        /\ IsTextPrefix(ErrorStderr(result.stderr), result.stderr)

\* a non-zero exit with more than 4000 characters of stderr was surfaced
C31_Witness ==
    /\ AgentFailed
    /\ TextLen(result.stderr) > StderrCap
    /\ TextLen(ErrorStderr(result.stderr)) = StderrCap

(* ---------------- one task for an instance ---------------- *)

Decoded == pc # "idle" /\ decode(event).ok

\* C33: the decoded task is immutable: at every step of a pass the message
\* is the value decode returned, the task serialized for the binary is the
\* JSON text of that value, and the outbound call is the one chosen by its
\* reply descriptor.
C33_TaskImmutable ==
    Decoded =>
        /\ task = decode(event).msg
        /\ Provisioned => args[4] = JSONstringify(decode(event))
        /\ sinkCalls # << >> =>
              sinkCalls = SinkCallFor(decode(event).msg.replyType, result.stdout)

\* a pass that generated its identifier has ended, and its message still
\* has none
C33_Witness ==
    /\ pc = "done"
    /\ correlationId = randomUUID(1)
    /\ ~task.correlation_id.present
    /\ event.payload = "object"

(* ---------------- the cold start ---------------- *)

\* C34: when the check of the binary fails while the module is loaded, the
\* handler is never registered: the instance decodes no message, creates no
\* sandbox and spawns no process.
C34_NoHandlerAfterFailedColdStart ==
    ~binaryOk =>
        /\ ~registered
        /\ pc = "idle"
        /\ deliveries = 0
        /\ event = NoEvent
        /\ fs = { << >>, TmpRoot }
        /\ spawns = 0
        /\ spawned = "none"

\* the module was loaded without the binary
C34_Witness == ~binaryOk /\ ~registered /\ deliveries = 0

(* ---------------- the watchdog after the run has settled ---------------- *)

\* the close listener or the error listener of the run has run
CloseOrErrorHandled == closeHandled \/ (spawned = "errorEvent" /\ RunReturned)

\* C35: the watchdog never acts after the close or the error event of a
\* run has been handled: a run settled by its close event has its timer
\* cancelled and no signal sent, and from then on no step of the pass fires
\* the timer or sends a signal, in any order of timer, close and error.
C35_NoKillAfterClose ==
    [][/\ runState' = "resolved" => (timer' = "cleared" /\ kills' = << >>)
       /\ (CloseOrErrorHandled /\ pc' # "idle") =>
             /\ kills' = kills
             /\ timer' = timer
             /\ top' # "killed" \/ top = "killed"]_vars

\* the close event was handled with the timer armed and the pass goes on
C35_Witness ==
    /\ closeHandled
    /\ runState = "resolved"
    /\ timer = "cleared"
    /\ now >= 1
    /\ pc = "dispatching"
    /\ kills = << >>

(* ---------------- the identifier given to the binary ---------------- *)

\* C36: the identifier that names the sandbox of a pass is the
\* correlation_id the binary reads in its --input argument, also when the
\* message had none and the identifier was generated.
C36_InputCarriesSandboxId ==
    (Provisioned /\ ~decode(event).isScalar) =>
        /\ sandbox = Resolve(SandboxPath(correlationId))
        /\ JSONparse(spawnCall.argv[4]).correlation_id = Some(correlationId)

(* ---------------- a close without an exit code ---------------- *)

\* the process has closed before the deadline without an exit code: a
\* signal that was not the watchdog's ended it
ClosedBySignal == closed = "inTime" /\ ~exitCode.present /\ topExit = "inTime"

\* C37: a process that closes before the deadline without an exit code is
\* reported with exit code 1: the pass fails as an agent error and makes no
\* sink call; it is never a success.
C37_NoExitCodeIsFailure ==
    (ClosedBySignal /\ RunReturned) =>
        /\ runState = "resolved"
        /\ result.code = 1
        /\ pc = "failed"
        /\ failKind = "AgentError"
        /\ sinkCalls = << >>
        /\ kills = << >>

\* a task that asks for a comment on GitHub, whose process was ended by a
\* signal after it had written to stdout
C37_Witness ==
    /\ ClosedBySignal
    /\ RunReturned
    /\ IsGitHub(task)
    /\ result.stdout # << >>
    /\ result.code = 1
    /\ pc = "failed"

(* ---------------- the missing key ---------------- *)

\* C38: without CURSOR_API_KEY every pass fails before any side effect: no
\* sandbox directory is created, no process is spawned and no sink is
\* called.  The pass of a decodable message fails on the key, and the pass
\* of a malformed one still fails as malformed: decoding comes first.
C38_NoKeyNoSideEffect ==
    ~keyPresent =>
        /\ fs = { << >>, TmpRoot }
        /\ created = { }
        /\ spawns = 0
        /\ spawned = "none"
        /\ sinkCalls = << >>
        /\ ~leftover
        /\ pc \in {"idle", "failed"}
        /\ pc = "failed" =>
              failKind = (IF decode(event).ok THEN "Config" ELSE "Malformed")

\* without the key, a pass for an object has failed on the key
C38_Witness ==
    /\ ~keyPresent
    /\ pc = "failed"
    /\ event.payload = "object"
    /\ failKind = "Config"
    /\ deliveries = 2

(* ---------------- the choice of the sink ---------------- *)

\* the reply type begins with "github."
IsGitHubType(r) == r.replyType.present /\ StartsWith(r.replyType.v, <<"github", ".">>)

\* the call made is one call to the sink
OneCallTo(sink) == Len(sinkCalls) = 1 /\ sinkCalls[1].sink = sink

\* the pass has ended Done without a call and without an error
DoneWithoutCall ==
    pc = "done" /\ sinkCalls = << >> /\ failKind = "none" /\ response = "none"

====
